---- MODULE Spec2Model ----
(***************************************************************************)
(* Country/state/city lookup service (main.py): the startup loader         *)
(* load_data with its Redis auto-population, the relaxed state resolver    *)
(* find_state_relaxedly and the get_cities / search_cities handlers, run   *)
(* by two worker processes that read the same data files and share one     *)
(* Redis store.                                                            *)
(*                                                                         *)
(* Strings are sequences of one-character strings, so that lower(),        *)
(* upper(), strip(), replace(' ', '_') and the substring test `a in b` are *)
(* computed as Python computes them.                                       *)
(***************************************************************************)
EXTENDS Integers, Sequences, FiniteSets, TLC

VARIABLES
    countries_data,     \* parsed data.json: sequence of country records
    world_cities,       \* parsed world_cities.json: sequence of city records
    store,              \* the Redis key space: key -> stored value
    USE_REDIS,          \* per process: did the startup ping succeed
    pc,                 \* per process: position in load_data / serving
    marker,             \* per process: outcome of the sentinel GET
    writes,             \* per process: SET commands it has executed
    country_lookup,     \* per process: code -> Country (with its states)
    state_lookup,       \* per process: code -> set of lowercased state names
    city_search_index,  \* per process: the flat search index
    idx,                \* per process: next city record of the indexing loop
    resp                \* the last response a handler returned

vars == <<countries_data, world_cities, store, USE_REDIS, pc, marker, writes,
          country_lookup, state_lookup, city_search_index, idx, resp>>

Procs == {"w1", "w2"}

MaxCities == 2

CITY_SEARCH_LIMIT == 50

-----------------------------------------------------------------------------
(* Python string operations *)

LowerChar(ch) ==
    CASE ch = "A" -> "a" [] ch = "B" -> "b" [] ch = "X" -> "x"
      [] ch = "U" -> "u" [] ch = "S" -> "s" [] ch = "Z" -> "z"
      [] OTHER -> ch

UpperChar(ch) ==
    CASE ch = "a" -> "A" [] ch = "b" -> "B" [] ch = "x" -> "X"
      [] ch = "u" -> "U" [] ch = "s" -> "S" [] ch = "z" -> "Z"
      [] OTHER -> ch

Lower(s) == [i \in 1..Len(s) |-> LowerChar(s[i])]

Upper(s) == [i \in 1..Len(s) |-> UpperChar(s[i])]

RECURSIVE LStrip(_)
LStrip(s) == IF s # <<>> /\ Head(s) = " " THEN LStrip(Tail(s)) ELSE s

RECURSIVE RStrip(_)
RStrip(s) ==
    IF s # <<>> /\ s[Len(s)] = " " THEN RStrip(SubSeq(s, 1, Len(s) - 1)) ELSE s

Strip(s) == RStrip(LStrip(s))

ReplaceSpaces(s) == [i \in 1..Len(s) |-> IF s[i] = " " THEN "_" ELSE s[i]]

\* Python's `a in b` on strings
Contains(b, a) ==
    \E k \in 0..(Len(b) - Len(a)) : SubSeq(b, k + 1, k + Len(a)) = a

Min(S) == CHOOSE m \in S : \A n \in S : m <= n

Max0(S) == CHOOSE m \in S : \A n \in S : m >= n

-----------------------------------------------------------------------------
(* The input files *)

US == <<"U", "S">>
FR == <<"F", "R">>

State(n) == [name |-> n, cities |-> <<>>]

Country(c, ss) == [code |-> c, name |-> Lower(c), states |-> ss]

Datasets ==
    { <<Country(FR, <<>>), Country(US, <<State(<<"A">>)>>)>>,
      <<Country(US, <<State(<<"A", "b">>), State(<<"a", "b">>)>>)>> }

CityRecord(c, s, n, nl) ==
    [country_code |-> c, state_name |-> s, name |-> n, name_local |-> nl]

CityRecords ==
    { CityRecord(US, <<"A", "b">>, <<"X", "a">>, <<>>),
      CityRecord(US, <<"a", "b">>, <<"x", "b">>, <<"X", "s">>),
      CityRecord(<<"u", "s">>, <<"A", "b">>, <<"b">>, <<>>),
      CityRecord(US, <<" ", "A", "b">>, <<"a">>, <<>>) }

RECURSIVE SeqsUpTo(_, _)
SeqsUpTo(S, n) ==
    IF n = 0 THEN {<<>>}
    ELSE LET shorter == SeqsUpTo(S, n - 1)
         IN  shorter \cup {Append(q, e) : q \in shorter, e \in S}

\* (country_code, state_name) path parameters of get_cities
CityRequests ==
    { <<US, <<"A", "b">>>>,
      <<<<"u", "s">>, <<" ", "a", "B", " ">>>>,
      <<US, <<"b">>>>,
      <<US, <<"x">>>>,
      <<<<"Z", "Z">>, <<"A", "b">>>> }

\* q parameters of search_cities
SearchQueries == { <<"b">>, <<" ", "X", "s">>, <<>> }

-----------------------------------------------------------------------------
(* Redis *)

SENTINEL == <<"system", "cities_loaded">>

CitiesKey(code, norm_state) == <<"cities", code, norm_state>>

NoneValue == [kind |-> "none", data |-> <<>>]

StrValue(s) == [kind |-> "str", data |-> s]

\* json.dumps of a list of city records
JsonDumps(list) == [kind |-> "json", data |-> list]

JsonLoads(v) == v.data

RedisGet(db, key) == IF key \in DOMAIN db THEN db[key] ELSE NoneValue

\* Python truthiness of a GET reply (None and "" are falsy)
Truthy(v) ==
    CASE v.kind = "none" -> FALSE
      [] v.kind = "str" -> v.data # ""
      [] OTHER -> TRUE

-----------------------------------------------------------------------------
(* find_state_relaxedly: the position of the matched state in the country's *)
(* state list, 0 for None                                                   *)

\* variant: one pass, the first state that matches in any way
find_state_first_match(country_code, state_name, country_lookup_map) ==
    IF country_code \notin DOMAIN country_lookup_map THEN 0
    ELSE LET states == country_lookup_map[country_code].states
             target == Strip(Lower(state_name))
             any == {i \in 1..Len(states) :
                        \/ Lower(states[i].name) = target
                        \/ Contains(Lower(states[i].name), target)
                        \/ Contains(target, Lower(states[i].name))}
         IN  IF any # {} THEN Min(any) ELSE 0

find_state_relaxedly(country_code, state_name, country_lookup_map) ==
    IF country_code \notin DOMAIN country_lookup_map THEN 0
    ELSE LET states == country_lookup_map[country_code].states
             target == Strip(Lower(state_name))
             exact == {i \in 1..Len(states) : Lower(states[i].name) = target}
             relaxed == {i \in 1..Len(states) :
                            \/ Contains(Lower(states[i].name), target)
                            \/ Contains(target, Lower(states[i].name))}
         IN  IF exact # {} THEN Min(exact)
             ELSE IF relaxed # {} THEN Min(relaxed)
             ELSE 0

-----------------------------------------------------------------------------
(* load_data *)

\* key under which the auto-loader files a city record
PopulationKey(city) ==
    CitiesKey(Upper(city.country_code), ReplaceSpaces(Lower(city.state_name)))

\* variant: a later city of a group replaces the group
RECURSIVE data_by_state_overwrite(_, _)
data_by_state_overwrite(cities, n) ==
    IF n = 0 THEN <<>>
    ELSE LET prev == data_by_state_overwrite(cities, n - 1)
             key == PopulationKey(cities[n])
         IN  IF key \in DOMAIN prev
             THEN [prev EXCEPT ![key] = <<cities[n]>>]
             ELSE (key :> <<cities[n]>>) @@ prev

\* data_by_state after the first n city records
RECURSIVE data_by_state(_, _)
data_by_state(cities, n) ==
    IF n = 0 THEN <<>>
    ELSE LET prev == data_by_state(cities, n - 1)
             key == PopulationKey(cities[n])
         IN  IF key \in DOMAIN prev
             THEN [prev EXCEPT ![key] = Append(@, cities[n])]
             ELSE (key :> <<cities[n]>>) @@ prev

\* the commands queued on the pipeline, applied by execute()
PipelineExecute(db, cities) ==
    LET groups == data_by_state(cities, Len(cities))
        queued == [k \in DOMAIN groups |-> JsonDumps(groups[k])]
    IN  (SENTINEL :> StrValue("true")) @@ queued @@ db

\* number of SET commands on that pipeline
PipelineLength(cities) ==
    Cardinality(DOMAIN data_by_state(cities, Len(cities))) + 1

BuildCountryLookup(data) ==
    [code \in {data[i].code : i \in 1..Len(data)} |->
        data[Max0({i \in 1..Len(data) : data[i].code = code})]]

BuildStateLookup(lookup) ==
    [code \in DOMAIN lookup |->
        {Lower(lookup[code].states[i].name) : i \in 1..Len(lookup[code].states)}]

SearchIndexEntry(city) ==
    [n |-> city.name, nl |-> city.name_local,
     s |-> city.state_name, c |-> city.country_code]

\* variant: the membership test forgets lower()
NeedsNewStateCaseSensitive(lookup_by_state, city) ==
    /\ city.country_code \in DOMAIN lookup_by_state
    /\ city.state_name \notin lookup_by_state[city.country_code]

NeedsNewState(lookup_by_state, city) ==
    /\ city.country_code \in DOMAIN lookup_by_state
    /\ Lower(city.state_name) \notin lookup_by_state[city.country_code]

\* dynamic state creation for one city record
WithState(lookup, lookup_by_state, city) ==
    IF NeedsNewState(lookup_by_state, city)
    THEN [lookup EXCEPT ![city.country_code].states =
              Append(@, State(city.state_name))]
    ELSE lookup

RegisterState(lookup_by_state, city) ==
    IF NeedsNewState(lookup_by_state, city)
    THEN [lookup_by_state EXCEPT ![city.country_code] =
              @ \cup {Lower(city.state_name)}]
    ELSE lookup_by_state

City(city) == [name |-> city.name, name_local |-> city.name_local]

\* the in-memory branch: attach the city to the state the resolver finds
AttachCity(lookup, city) ==
    LET st == find_state_relaxedly(city.country_code, city.state_name, lookup)
    IN  IF st = 0 THEN lookup
        ELSE [lookup EXCEPT ![city.country_code].states[st].cities =
                  Append(@, City(city))]

\* variant: the sentinel is not consulted
ShouldPopulateAlways(reply) == TRUE

\* line 158: the condition under which the auto-loader populates
ShouldPopulate(reply) == ~Truthy(reply)

\* line 158: GET of the sentinel succeeds (a worker that skips population
\* goes on to line 177 and builds state_lookup)
CheckSentinel(p) ==
    /\ pc[p] = "check"
    /\ LET reply == RedisGet(store, SENTINEL)
       IN  /\ marker' = [marker EXCEPT ![p] =
                            IF reply.kind = "none" THEN "absent" ELSE "present"]
           /\ pc' = [pc EXCEPT ![p] =
                        IF ShouldPopulate(reply) THEN "populate" ELSE "index"]
           /\ state_lookup' = [state_lookup EXCEPT ![p] =
                        IF ShouldPopulate(reply) THEN @
                        ELSE BuildStateLookup(country_lookup[p])]
    /\ UNCHANGED <<countries_data, world_cities, store, USE_REDIS, writes,
                   country_lookup, city_search_index, idx, resp>>

\* lines 160-173 and 177: group, queue and execute the pipeline, then build
\* state_lookup
PopulateRedis(p) ==
    /\ pc[p] = "populate"
    /\ store' = PipelineExecute(store, world_cities)
    /\ writes' = [writes EXCEPT ![p] = @ + PipelineLength(world_cities)]
    /\ pc' = [pc EXCEPT ![p] = "index"]
    /\ state_lookup' = [state_lookup EXCEPT ![p] = BuildStateLookup(country_lookup[p])]
    /\ UNCHANGED <<countries_data, world_cities, USE_REDIS, marker,
                   country_lookup, city_search_index, idx, resp>>

\* lines 174-177: a Redis call raises; the handler prints a warning and
\* load_data goes on to build state_lookup
RedisFailure(p) ==
    /\ pc[p] \in {"check", "populate"}
    /\ marker' = [marker EXCEPT ![p] = "error"]
    /\ pc' = [pc EXCEPT ![p] = "index"]
    /\ state_lookup' = [state_lookup EXCEPT ![p] = BuildStateLookup(country_lookup[p])]
    /\ UNCHANGED <<countries_data, world_cities, store, USE_REDIS, writes,
                   country_lookup, city_search_index, idx, resp>>

\* lines 179-207: one iteration of the loop over world_cities
IndexCity(p) ==
    /\ pc[p] = "index"
    /\ idx[p] <= Len(world_cities)
    /\ LET city == world_cities[idx[p]]
           grown == WithState(country_lookup[p], state_lookup[p], city)
       IN  /\ city_search_index' =
                [city_search_index EXCEPT ![p] = Append(@, SearchIndexEntry(city))]
           /\ state_lookup' =
                [state_lookup EXCEPT ![p] = RegisterState(@, city)]
           /\ country_lookup' =
                [country_lookup EXCEPT ![p] =
                    IF USE_REDIS[p] THEN grown ELSE AttachCity(grown, city)]
    /\ idx' = [idx EXCEPT ![p] = @ + 1]
    /\ UNCHANGED <<countries_data, world_cities, store, USE_REDIS, pc, marker,
                   writes, resp>>

\* lines 209-217: the loop is over, load_data returns and requests are served
FinishLoad(p) ==
    /\ pc[p] = "index"
    /\ idx[p] > Len(world_cities)
    /\ pc' = [pc EXCEPT ![p] = "serving"]
    /\ UNCHANGED <<countries_data, world_cities, store, USE_REDIS, marker, writes,
                   country_lookup, state_lookup, city_search_index, idx, resp>>

-----------------------------------------------------------------------------
(* The request in progress: one client sends its requests one after the    *)
(* other, each to either worker                                            *)

NoResponse ==
    [op |-> "none", proc |-> "w1", code |-> <<>>, arg |-> <<>>,
     out |-> [status |-> 0, state |-> 0, cached |-> FALSE, body |-> <<>>]]

-----------------------------------------------------------------------------
(* get_cities *)

RedisKeyOf(country_code, state) ==
    CitiesKey(country_code, ReplaceSpaces(Lower(state.name)))

\* response_model=List[City]: the fields of City are what the caller gets
AsCities(rows) == [i \in 1..Len(rows) |-> City(rows[i])]

\* variant: a resolved state whose key is missing is answered 404
GetCitiesMissingKey404(p, raw_code, state_name) ==
    LET country_code == Upper(raw_code)
        st == find_state_relaxedly(country_code, state_name, country_lookup[p])
        state == country_lookup[p][country_code].states[st]
        cities_data == RedisGet(store, RedisKeyOf(country_code, state))
    IN  IF USE_REDIS[p] /\ st # 0 /\ Truthy(cities_data)
        THEN [status |-> 200, state |-> st, cached |-> TRUE,
              body |-> AsCities(JsonLoads(cities_data))]
        ELSE IF st = 0 \/ USE_REDIS[p]
        THEN [status |-> 404, state |-> 0, cached |-> FALSE, body |-> <<>>]
        ELSE [status |-> 200, state |-> st, cached |-> FALSE, body |-> state.cities]

\* outcome of get_cities for worker p: status 404 or 200, the state the
\* resolver returned, whether the Redis value was served, and the body
GetCities(p, raw_code, state_name) ==
    LET country_code == Upper(raw_code)
        st == find_state_relaxedly(country_code, state_name, country_lookup[p])
        state == country_lookup[p][country_code].states[st]
        cities_data == RedisGet(store, RedisKeyOf(country_code, state))
    IN  IF USE_REDIS[p] /\ st # 0 /\ Truthy(cities_data)
        THEN [status |-> 200, state |-> st, cached |-> TRUE,
              body |-> AsCities(JsonLoads(cities_data))]
        ELSE IF st = 0
        THEN [status |-> 404, state |-> 0, cached |-> FALSE, body |-> <<>>]
        ELSE [status |-> 200, state |-> st, cached |-> FALSE, body |-> state.cities]

get_cities(p, raw_code, state_name) ==
    /\ pc[p] = "serving"
    /\ resp.op = "none"
    /\ resp' = [op |-> "get_cities", proc |-> p, code |-> raw_code,
                arg |-> state_name, out |-> GetCities(p, raw_code, state_name)]
    /\ UNCHANGED <<countries_data, world_cities, store, USE_REDIS, pc, marker,
                   writes, country_lookup, state_lookup, city_search_index, idx>>

-----------------------------------------------------------------------------
(* search_cities *)

SearchRow(n, nl, s, c, cn) ==
    [name |-> n, name_local |-> nl, state_name |-> s,
     country_code |-> c, country_name |-> cn]

\* lines 336-350: scan of the lightweight index from entry i on
RECURSIVE ScanIndex(_, _, _, _, _)
ScanIndex(index, lookup, query, i, results) ==
    IF i > Len(index) THEN results
    ELSE LET city == index[i]
             hit == \/ Contains(Lower(city.n), query)
                    \/ (city.nl # <<>> /\ Contains(Lower(city.nl), query))
             country_name == IF city.c \in DOMAIN lookup
                             THEN lookup[city.c].name ELSE city.c
             found == IF hit
                      THEN Append(results, SearchRow(city.n, city.nl, city.s,
                                                     city.c, country_name))
                      ELSE results
         IN  IF hit /\ Len(found) >= CITY_SEARCH_LIMIT THEN found
             ELSE ScanIndex(index, lookup, query, i + 1, found)

\* lines 353-359: the cities in the order the nested loops visit them
RECURSIVE StateRows(_, _, _)
StateRows(country, states, j) ==
    IF j > Len(states) THEN <<>>
    ELSE [k \in 1..Len(states[j].cities) |->
             [city |-> states[j].cities[k], state |-> states[j],
              country |-> country]]
         \o StateRows(country, states, j + 1)

RECURSIVE CountryRows(_, _, _)
CountryRows(data, lookup, i) ==
    IF i > Len(data) THEN <<>>
    ELSE StateRows(lookup[data[i].code], lookup[data[i].code].states, 1)
         \o CountryRows(data, lookup, i + 1)

\* lines 360-373: scan of the in-memory hierarchy from row i on
RECURSIVE ScanMemory(_, _, _, _)
ScanMemory(rows, query, i, results) ==
    IF i > Len(rows) THEN results
    ELSE LET city == rows[i].city
             hit == \/ Contains(Lower(city.name), query)
                    \/ (city.name_local # <<>> /\ Contains(city.name_local, query))
             found == IF hit
                      THEN Append(results,
                                  SearchRow(city.name, city.name_local,
                                            rows[i].state.name, rows[i].country.code,
                                            rows[i].country.name))
                      ELSE results
         IN  IF hit /\ Len(found) >= CITY_SEARCH_LIMIT THEN found
             ELSE ScanMemory(rows, query, i + 1, found)

SearchCities(p, q) ==
    LET query == Strip(Lower(q))
    IN  IF query = <<>> THEN <<>>
        ELSE IF USE_REDIS[p]
        THEN ScanIndex(city_search_index[p], country_lookup[p], query, 1, <<>>)
        ELSE ScanMemory(CountryRows(countries_data, country_lookup[p], 1),
                        query, 1, <<>>)

search_cities(p, q) ==
    /\ pc[p] = "serving"
    /\ resp.op = "none"
    /\ resp' = [op |-> "search_cities", proc |-> p, code |-> <<>>, arg |-> q,
                out |-> [status |-> 200, state |-> 0, cached |-> FALSE,
                         body |-> SearchCities(p, q)]]
    /\ UNCHANGED <<countries_data, world_cities, store, USE_REDIS, pc, marker,
                   writes, country_lookup, state_lookup, city_search_index, idx>>

\* the client has its answer and may send the next request
Deliver ==
    /\ resp.op # "none"
    /\ resp' = NoResponse
    /\ UNCHANGED <<countries_data, world_cities, store, USE_REDIS, pc, marker,
                   writes, country_lookup, state_lookup, city_search_index, idx>>

-----------------------------------------------------------------------------
(* The system *)

Init ==
    /\ countries_data \in Datasets
    /\ world_cities \in SeqsUpTo(CityRecords, MaxCities)
    /\ store = <<>>
    /\ USE_REDIS \in [Procs -> BOOLEAN]
    /\ pc = [p \in Procs |-> IF USE_REDIS[p] THEN "check" ELSE "index"]
    /\ marker = [p \in Procs |-> "unread"]
    /\ writes = [p \in Procs |-> 0]
    /\ country_lookup = [p \in Procs |-> BuildCountryLookup(countries_data)]
    /\ state_lookup = [p \in Procs |->
            IF USE_REDIS[p] THEN <<>> ELSE BuildStateLookup(country_lookup[p])]
    /\ city_search_index = [p \in Procs |-> <<>>]
    /\ idx = [p \in Procs |-> 1]
    /\ resp = NoResponse

Next ==
    \E p \in Procs :
        \/ CheckSentinel(p)
        \/ PopulateRedis(p)
        \/ RedisFailure(p)
        \/ IndexCity(p)
        \/ FinishLoad(p)
        \/ \E r \in CityRequests : get_cities(p, r[1], r[2])
        \/ \E q \in SearchQueries : search_cities(p, q)
        \/ Deliver

Spec == Init /\ [][Next]_vars

-----------------------------------------------------------------------------
(* Properties *)

Serving(p) == pc[p] = "serving"

StatesOf(p, code) == country_lookup[p][code].states

SentinelSet == SENTINEL \in DOMAIN store

\* r is the resolution of target among the names norm[1..n]: the first name
\* equal to target, else the first name containing it or contained in it,
\* else 0
IsResolution(r, norm, target) ==
    LET N == 1..Len(norm)
        Equal(i) == norm[i] = target
        Related(i) == Contains(norm[i], target) \/ Contains(target, norm[i])
    IN  IF \E i \in N : Equal(i)
        THEN r \in N /\ Equal(r) /\ \A j \in 1..(r - 1) : ~Equal(j)
        ELSE IF \E i \in N : Related(i)
        THEN r \in N /\ Related(r) /\ \A j \in 1..(r - 1) : ~Related(j)
        ELSE r = 0

LoweredNames(states) == [i \in 1..Len(states) |-> Lower(states[i].name)]

TrimmedNames(states) == [i \in 1..Len(states) |-> Strip(Lower(states[i].name))]

\* the resolver's answer recorded in a get_cities response agrees with the
\* resolution over the state names, lowercased and (if trimmed) stripped
ResolvedOver(trimmed) ==
    resp.op = "get_cities" =>
        LET code == Upper(resp.code)
            lookup == country_lookup[resp.proc]
        IN  IF code \notin DOMAIN lookup THEN resp.out.state = 0
            ELSE IsResolution(resp.out.state,
                              IF trimmed THEN TrimmedNames(lookup[code].states)
                              ELSE LoweredNames(lookup[code].states),
                              Strip(Lower(resp.arg)))

\* C1, as claimed: the resolver returns NotFound for an unknown country,
\* else the first state whose lowercased, trimmed name equals the lowercased,
\* trimmed query, else the first state whose normalized name contains the
\* query or is contained in it, else NotFound.
C1_TrimmedNameResolution == ResolvedOver(TRUE)

\* C1, amended: the same policy, with the state's name lowercased but not
\* trimmed (only the query is trimmed).
C1_LoweredNameResolution == ResolvedOver(FALSE)

\* an exact match (state 2) won over an earlier-listed substring match
C1_Witness ==
    /\ resp.op = "get_cities"
    /\ resp.out.state = 2
    /\ resp.arg # Strip(Lower(resp.arg))
    /\ LET states == StatesOf(resp.proc, Upper(resp.code))
       IN  /\ Contains(Strip(Lower(resp.arg)), Lower(states[1].name))
           /\ Lower(states[2].name) = Strip(Lower(resp.arg))

\* C3: a worker whose sentinel check found system:cities_loaded present
\* executes no SET at all and never enters the population branch.
C3_NoWriteWhenSentinelPresent ==
    \A p \in Procs : marker[p] = "present" => writes[p] = 0 /\ pc[p] # "populate"

\* a worker finished loading after finding the sentinel another worker wrote
C3_Witness ==
    \E p, q \in Procs :
        /\ marker[p] = "present" /\ Serving(p) /\ writes[p] = 0
        /\ writes[q] > 0 /\ world_cities # <<>>

\* what a Redis-mode get_cities response must be, given the store it read
RedisOutcome ==
    (resp.op = "get_cities" /\ USE_REDIS[resp.proc]) =>
        LET code == Upper(resp.code)
            lookup == country_lookup[resp.proc]
            target == Strip(Lower(resp.arg))
            resolvable ==
                /\ code \in DOMAIN lookup
                /\ \E i \in 1..Len(lookup[code].states) :
                      LET n == Lower(lookup[code].states[i].name)
                      IN  n = target \/ Contains(n, target) \/ Contains(target, n)
            out == resp.out
        IN  /\ out.status \in {200, 404}
            /\ out.status = 404 <=> ~resolvable
            /\ out.status = 404 => out.body = <<>>
            /\ out.status = 200 =>
                  LET resolved == lookup[code].states[out.state].name
                      key == <<"cities", code, ReplaceSpaces(Lower(resolved))>>
                  IN  IF key \in DOMAIN store
                      THEN out.body = AsCities(store[key].data)
                      ELSE out.body = <<>>

\* C6: in Redis mode every get_cities call answers 404 exactly when the
\* country is unknown or no state resolves; otherwise it answers with the
\* cities stored under the resolved state's own key, or with the empty list
\* (never an error) when that key is absent.
C6_RedisGetCitiesOutcome ==
    [][(resp.op = "none" /\ resp'.op = "get_cities") => RedisOutcome']_vars

\* a state resolved in Redis mode while its key is absent from a populated store
C6_Witness ==
    /\ resp.op = "get_cities" /\ USE_REDIS[resp.proc]
    /\ resp.out.status = 200 /\ ~resp.out.cached /\ resp.out.body = <<>>
    /\ SentinelSet /\ Cardinality(DOMAIN store) > 1

Names(body) == {body[i].name : i \in 1..Len(body)}

\* C2, as claimed: once the store is populated, a Redis-mode worker and an
\* in-memory worker loaded from the same files answer every get_cities
\* request alike: the same 404s and the same set of city names.
C2_BackendEquivalence ==
    \A p, q \in Procs :
        (Serving(p) /\ Serving(q) /\ USE_REDIS[p] /\ ~USE_REDIS[q] /\ SentinelSet) =>
            \A r \in CityRequests :
                LET a == GetCities(p, r[1], r[2])
                    b == GetCities(q, r[1], r[2])
                IN  a.status = b.status /\ Names(a.body) = Names(b.body)

\* C4, as claimed: a Redis-mode worker and an in-memory worker loaded from
\* the same files return the same sequence of matches for every query.
C4_SearchBackendIndependent ==
    \A p, q \in Procs :
        (Serving(p) /\ Serving(q) /\ USE_REDIS[p] /\ ~USE_REDIS[q]) =>
            \A query \in SearchQueries : SearchCities(p, query) = SearchCities(q, query)

\* C5, as claimed: for a non-empty query search_cities returns the first
\* min(50, m) of the m input city records whose name or non-empty name_local
\* contains the query case-insensitively, in input order.
C5_SearchTruncation ==
    (resp.op = "search_cities" /\ resp.arg # <<>>) =>
        LET query == Strip(Lower(resp.arg))
            Match(c) == \/ Contains(Lower(c.name), query)
                        \/ (c.name_local # <<>> /\ Contains(Lower(c.name_local), query))
            matches == SelectSeq(world_cities, Match)
            k == IF Len(matches) < CITY_SEARCH_LIMIT THEN Len(matches)
                 ELSE CITY_SEARCH_LIMIT
            body == resp.out.body
        IN  /\ Len(body) = k
            /\ \A i \in 1..k :
                  /\ body[i].name = matches[i].name
                  /\ body[i].name_local = matches[i].name_local
                  /\ body[i].country_code = matches[i].country_code

\* a later city record of worker p's loop would still add a state
CanStillAddState(p) ==
    /\ ~Serving(p)
    /\ \E j \in idx[p]..Len(world_cities) :
          NeedsNewState(BuildStateLookup(country_lookup[p]), world_cities[j])

\* worker p has written city data to the store or attached a city to a state
PopulationBegun(p) ==
    \/ writes[p] > 0
    \/ \E code \in DOMAIN country_lookup[p] :
          \E i \in 1..Len(StatesOf(p, code)) : StatesOf(p, code)[i].cities # <<>>

\* C7, as claimed: no city data is written to the store and no city is
\* attached to a state while a later city record can still add a state.
C7_IndexBeforePopulation ==
    \A p \in Procs : ~(PopulationBegun(p) /\ CanStillAddState(p))

\* C8, as claimed: a worker serves in Redis mode only with the population
\* done, i.e. with the sentinel in the store.
C8_PopulationAllOrFail ==
    \A p \in Procs : (Serving(p) /\ USE_REDIS[p]) => SentinelSet

CaseUnique(states) ==
    \A i, j \in 1..Len(states) :
        i # j => Lower(states[i].name) # Lower(states[j].name)

MasterStates(code) == BuildCountryLookup(countries_data)[code].states

\* how load_data changed one country's state list: the master states stay
\* in front; every state behind them carries, in its original casing, the
\* state_name of the first city record of this country with that lowercased
\* name, which no earlier state has; every city record of this country finds
\* its lowercased state name in the list
Creation(p, code) ==
    LET final == StatesOf(p, code)
        m == Len(MasterStates(code))
        known == {i \in 1..Len(world_cities) : world_cities[i].country_code = code}
    IN  /\ Len(final) >= m
        /\ \A k \in 1..m : final[k].name = MasterStates(code)[k].name
        /\ \A k \in (m + 1)..Len(final) :
              /\ \A j \in 1..(k - 1) : Lower(final[j].name) # Lower(final[k].name)
              /\ \E i \in known :
                    /\ world_cities[i].state_name = final[k].name
                    /\ \A h \in known :
                          h < i => Lower(world_cities[h].state_name) # Lower(final[k].name)
        /\ \A i \in known :
              \E k \in 1..Len(final) :
                  Lower(final[k].name) = Lower(world_cities[i].state_name)

Countries(p) == DOMAIN country_lookup[p]

\* C9, as claimed: after load_data no two states of a country have names
\* equal when lowercased, and states are created as described.
C9_StateNamesUnique ==
    \A p \in Procs :
        Serving(p) =>
            /\ Countries(p) = DOMAIN BuildCountryLookup(countries_data)
            /\ \A code \in Countries(p) :
                  CaseUnique(StatesOf(p, code)) /\ Creation(p, code)

\* C9, amended: load_data adds no state whose lowercased name an earlier
\* state of the country has, so the names are unique when lowercased if the
\* master list's are; states are created as described.
C9_NoDuplicateAdded ==
    \A p \in Procs :
        Serving(p) =>
            /\ Countries(p) = DOMAIN BuildCountryLookup(countries_data)
            /\ \A code \in Countries(p) :
                  /\ CaseUnique(MasterStates(code)) => CaseUnique(StatesOf(p, code))
                  /\ Creation(p, code)

\* two city records named one new state in different casing; one state was
\* added
C9_Witness ==
    \E p \in Procs :
        /\ Serving(p)
        /\ Len(world_cities) = 2
        /\ world_cities[1].country_code = US /\ world_cities[2].country_code = US
        /\ world_cities[1].state_name # world_cities[2].state_name
        /\ Lower(world_cities[1].state_name) = Lower(world_cities[2].state_name)
        /\ Len(StatesOf(p, US)) = Len(MasterStates(US)) + 1

\* the store one worker populating alone leaves behind
ExpectedStore ==
    LET keys == {PopulationKey(world_cities[i]) : i \in 1..Len(world_cities)}
        Group(k) == LET InGroup(c) == PopulationKey(c) = k
                    IN  SelectSeq(world_cities, InGroup)
    IN  [k \in keys \cup {SENTINEL} |->
            IF k = SENTINEL THEN StrValue("true") ELSE JsonDumps(Group(k))]

\* C10: however the workers' sentinel checks and pipeline executions
\* interleave, the store is either untouched or exactly what one worker
\* populating alone produces, and the sentinel is never present while a
\* group key is missing or incomplete.
C10_RaceBenign ==
    /\ store = <<>> \/ store = ExpectedStore
    /\ (\E p \in Procs : writes[p] > 0) => store = ExpectedStore
    /\ SentinelSet =>
          \A i \in 1..Len(world_cities) :
              /\ PopulationKey(world_cities[i]) \in DOMAIN store
              /\ \E n \in 1..Len(store[PopulationKey(world_cities[i])].data) :
                    store[PopulationKey(world_cities[i])].data[n] = world_cities[i]

\* both workers found the sentinel absent and both executed their pipeline
C10_Witness ==
    /\ \A p \in Procs : USE_REDIS[p] /\ writes[p] > 1 /\ Serving(p)
    /\ Len(world_cities) = 2
    /\ PopulationKey(world_cities[1]) = PopulationKey(world_cities[2])
    /\ store = ExpectedStore

====
